---------------------------- MODULE Spec2Model ----------------------------
(***************************************************************************)
(* A model of the funtils library (src/index.js) and of the places of its  *)
(* mocha suite (src/test/funtils.mspec.js) that call it.                   *)
(*                                                                         *)
(* Every exported function is independent of the others (only merge calls  *)
(* clone), so each group of functions has a specification of its own over  *)
(* the shared variables:                                                   *)
(*   SpecMemo        memoize                                               *)
(*   SpecClone       clone, merge (over an explicit heap of containers)    *)
(*   SpecCombinators dispatch, existy and the lookup of an export          *)
(*   SpecScale       generateScale (over binary floating point)            *)
(*   SpecMonad       monad: unit, bind, value, lift                        *)
(***************************************************************************)
EXTENDS Integers, Sequences, FiniteSets, TLC

VARIABLES
    \* memoize
    memo,        \* the closure's memo object: serialized key -> stored value
    fnKind,      \* what the wrapped function returns: "value" | "void"
    fnLog,       \* the invocations of the wrapped function: [args, ret]
    wrapLog      \* the calls of the wrapper: [args, ret]

VARIABLES
    \* clone, merge
    heap,        \* the arrays, objects and functions: address -> cell
    phase,       \* "build" | "cloned" | "merged"
    callArgs,    \* the arguments of the call of clone or merge
    callRes,     \* what the call returned
    callErr,     \* whether the call threw
    snap,        \* the heap as it was when the call was made
    muts         \* how many writes were made to the result's containers

VARIABLES
    \* dispatch
    dFns,        \* the handlers given to dispatch, each by the value it returns
    dPc,         \* "idle" | "made" | "loop" | "done"
    dArgs,       \* the arguments of the call of do_dispatch
    dI,          \* i of the for loop
    dRet,        \* ret
    dCalls,      \* the handlers invoked so far: [fn, args]
    \* the test suite's use of an export
    tPc,         \* "idle" | "called" | "thrown"
    tName        \* the export the test calls

VARIABLES
    \* generateScale
    sPc,         \* "idle" | "made" | "scaled"
    sParams,     \* [inputMin, inputMax, outputMin, outputMax] of the closure
    sX,          \* the argument of the last call of _scale
    sOut         \* what it returned

VARIABLES
    \* monad
    modifier,    \* typeof modifier: "function" | "undefined"
    prototype,   \* the constructor's shared prototype: name -> property
    monads,      \* the instances made so far, each [value]
    modCalls,    \* how many times the modifier was called
    firstLift,   \* name -> the function of its first successful lift
    last         \* the last operation, its arguments and its outcome

memoVars == <<memo, fnKind, fnLog, wrapLog>>
monadVars == <<modifier, prototype, monads, modCalls, firstLift, last>>
cloneVars == <<heap, phase, callArgs, callRes, callErr, snap, muts>>
combVars == <<dFns, dPc, dArgs, dI, dRet, dCalls, tPc, tName>>
scaleVars == <<sPc, sParams, sX, sOut>>

vars == <<memoVars, cloneVars, combVars, scaleVars, monadVars>>

\* what the functions of one group leave alone: the other groups' state
MemoFrame  == UNCHANGED <<cloneVars, combVars, scaleVars, monadVars>>
CloneFrame == UNCHANGED <<memoVars, combVars, scaleVars, monadVars>>
CombFrame  == UNCHANGED <<memoVars, cloneVars, scaleVars, monadVars>>
ScaleFrame == UNCHANGED <<memoVars, cloneVars, combVars, monadVars>>
MonadFrame == UNCHANGED <<memoVars, cloneVars, combVars, scaleVars>>

(***************************************************************************)
(* JavaScript values.  A value is a record [t, v]: t its type tag and v    *)
(* a number (the number itself, a string's or boolean's index, or the      *)
(* address of an object on the heap).                                      *)
(***************************************************************************)
Undefined == [t |-> "undefined", v |-> 0]
Null      == [t |-> "null", v |-> 0]
NaN       == [t |-> "nan", v |-> 0]
False     == [t |-> "boolean", v |-> 0]
True      == [t |-> "boolean", v |-> 1]
EmptyStr  == [t |-> "string", v |-> 0]
Num(n)    == [t |-> "number", v |-> n]
Str(n)    == [t |-> "string", v |-> n]
Ref(a)    == [t |-> "ref", v |-> a]

\* ToBoolean of a primitive: what `if (x)` and `x && y` test
Truthy(x) ==
    ~ \/ x.t \in {"undefined", "null", "nan"}
      \/ x = False
      \/ x = EmptyStr
      \/ x = Num(0)

SeqsUpTo(S, n) == UNION {[1..k -> S] : k \in 0..n}

(***************************************************************************)
(* memoize                                                                 *)
(***************************************************************************)
MaxArgs  == 2      \* longest argument list of a call
MaxCalls == 2      \* calls of the wrapper in one run

MemoArgVals == {Undefined, Null, NaN}
MemoRetVals(kind) == IF kind = "void" THEN {Undefined} ELSE {Null, Num(1)}

\* JSON.stringify of one property value: NaN serializes as null
JsonValue(x) == IF x.t = "nan" THEN Null ELSE x

RECURSIVE JsonProps(_, _)
\* the "i":value members of JSON.stringify(arguments) from index i on; a
\* property whose value is undefined is left out
JsonProps(args, i) ==
    IF i > Len(args) THEN <<>>
    ELSE IF args[i].t = "undefined" THEN JsonProps(args, i + 1)
    ELSE <<[k |-> i - 1, j |-> JsonValue(args[i])]>> \o JsonProps(args, i + 1)

\* var key = JSON.stringify(arguments)
MemoKey(args) == JsonProps(args, 1)

\* memo[key]: a missing property reads as undefined
MemoGet(m, key) == IF key \in DOMAIN m THEN m[key] ELSE Undefined

MemoMissFalsy(m, key) == ~Truthy(MemoGet(m, key))

\* typeof memo[key] === 'undefined'
MemoMiss(m, key) == MemoGet(m, key).t = "undefined"

MemoPut(m, key, x) == [k \in DOMAIN m \cup {key} |-> IF k = key THEN x ELSE m[k]]

\* function _memoize() { ... }
MemoCall(args) ==
    /\ Len(wrapLog) < MaxCalls
    /\ LET key == MemoKey(args) IN
       IF MemoMiss(memo, key)
       THEN \E r \in MemoRetVals(fnKind) :
              /\ fnLog' = Append(fnLog, [args |-> args, ret |-> r])
              /\ memo' = MemoPut(memo, key, r)
              /\ wrapLog' = Append(wrapLog, [args |-> args, ret |-> r])
       ELSE /\ wrapLog' = Append(wrapLog, [args |-> args, ret |-> memo[key]])
            /\ UNCHANGED <<memo, fnLog>>
    /\ UNCHANGED fnKind
    /\ MemoFrame

\* memoize(fn): var memo = {}
MemoInit ==
    /\ memo = <<>>
    /\ fnKind \in {"value", "void"}
    /\ fnLog = <<>>
    /\ wrapLog = <<>>

MemoIdle ==
    /\ memo = <<>>
    /\ fnKind = "value"
    /\ fnLog = <<>>
    /\ wrapLog = <<>>

MemoNext == \E args \in SeqsUpTo(MemoArgVals, MaxArgs) : MemoCall(args)

\* the invocations of the wrapped function whose arguments serialize to key
FnCallsFor(key) == {i \in 1..Len(fnLog) : MemoKey(fnLog[i].args) = key}
FirstFnCall(key) == CHOOSE i \in FnCallsFor(key) : \A j \in FnCallsFor(key) : i <= j

\* C1: when the wrapped function never returns undefined, it has been
\* invoked exactly once for each serialized argument list the wrapper has
\* seen, and every call of the wrapper returned the result of that first
\* invocation.
MemoOncePerKey ==
    fnKind = "value" =>
        \A c \in 1..Len(wrapLog) :
            LET key == MemoKey(wrapLog[c].args) IN
            /\ Cardinality(FnCallsFor(key)) = 1
            /\ wrapLog[c].ret = fnLog[FirstFnCall(key)].ret

\* two calls whose argument lists differ but serialize alike, the second
\* answered from the memo
MemoOncePerKeyWitness ==
    /\ fnKind = "value"
    /\ Len(wrapLog) = 2
    /\ wrapLog[1].args # wrapLog[2].args
    /\ MemoKey(wrapLog[1].args) = MemoKey(wrapLog[2].args)
    /\ Len(fnLog) = 1

\* C2: a wrapped function that returns no value is still invoked only once
\* for identical arguments.
MemoOnceVoid ==
    fnKind = "void" =>
        \A c \in 1..Len(wrapLog) :
            Cardinality(FnCallsFor(MemoKey(wrapLog[c].args))) = 1

(***************************************************************************)
(* clone and merge.  The heap is a sequence of cells, a cell's address its *)
(* index.  A cell is [kind, items]: kind is "array", "object" or           *)
(* "function" and items the elements or own enumerable properties in       *)
(* Object.keys order, each [k, x] (k: the index or the key, x: the value). *)
(***************************************************************************)
MaxCells == 3      \* containers and functions the caller builds
MaxItems == 2      \* elements of an array, keys of an object
MaxMuts  == 1      \* writes to the clone after the call

Changed == Str(9)  \* the value the caller writes into a clone

ClonePrims == {Null, Num(1)}

CloneValues(h) == ClonePrims \cup {Ref(a) : a \in 1..Len(h)}

Cell(kind, items) == [kind |-> kind, items |-> items]

\* the argument lists a caller can give: elements 0..n-1 of an array, or an
\* ascending choice of keys of an object
ArrayItems(h) ==
    {[i \in 1..n |-> [k |-> i - 1, x |-> xs[i]]] :
        n \in 0..MaxItems, xs \in [1..MaxItems -> CloneValues(h)]}
AscendingKeys ==
    {ks \in SeqsUpTo(1..MaxItems, MaxItems) :
        \A i \in 1..Len(ks), j \in 1..Len(ks) : i < j => ks[i] < ks[j]}
ObjectItems(h) ==
    UNION {{[i \in 1..Len(ks) |-> [k |-> ks[i], x |-> xs[i]]] :
                xs \in [1..Len(ks) -> CloneValues(h)]} : ks \in AscendingKeys}

HasKey(items, k) == \E i \in 1..Len(items) : items[i].k = k
GetItem(items, k) ==
    IF HasKey(items, k)
    THEN items[CHOOSE i \in 1..Len(items) : items[i].k = k].x
    ELSE Undefined
\* o[k] = x: an own property keeps its place, a new one goes last
SetItem(items, k, x) ==
    IF HasKey(items, k)
    THEN [i \in 1..Len(items) |-> IF items[i].k = k THEN [k |-> k, x |-> x] ELSE items[i]]
    ELSE Append(items, [k |-> k, x |-> x])

CloneOk(x, h)  == [x |-> x, h |-> h, err |-> FALSE]
CloneThrow(h)  == [x |-> Undefined, h |-> h, err |-> TRUE]

\* typeof x === 'object' for a value that is no array and no function
IsObjectLike(x, h) == x.t = "null" \/ (x.t = "ref" /\ h[x.v].kind = "object")

RECURSIVE clone(_, _)
RECURSIVE CloneEach(_, _, _, _)
\* the callback of .map(clone) and of Object.keys(o).map(...), applied from
\* item i on; done holds the copied items.  A throw ends the loop.
CloneEach(items, i, h, done) ==
    IF i > Len(items) THEN [items |-> done, h |-> h, err |-> FALSE]
    ELSE LET r == clone(items[i].x, h) IN
         IF r.err THEN [items |-> done, h |-> r.h, err |-> TRUE]
         ELSE CloneEach(items, i + 1, r.h, Append(done, [k |-> items[i].k, x |-> r.x]))

\* function clone(obj_or_array).  The fresh array or object is appended to
\* the heap; Object.keys(null) throws a TypeError.
clone(x, h) ==
    IF x.t = "ref" /\ h[x.v].kind = "array" THEN
        LET r == CloneEach(h[x.v].items, 1, h, <<>>) IN
        IF r.err THEN CloneThrow(r.h)
        ELSE CloneOk(Ref(Len(r.h) + 1), Append(r.h, Cell("array", r.items)))
    ELSE IF x.t = "ref" /\ h[x.v].kind = "function" THEN CloneOk(x, h)
    ELSE IF IsObjectLike(x, h) THEN
        IF x.t = "null" THEN CloneThrow(h)
        ELSE LET r == CloneEach(h[x.v].items, 1, h, <<>>) IN
             IF r.err THEN CloneThrow(r.h)
             ELSE CloneOk(Ref(Len(r.h) + 1), Append(r.h, Cell("object", r.items)))
    ELSE CloneOk(x, h)

RECURSIVE AssignEach(_, _, _)
\* Object.keys(props).map(function (prop) { newObj[prop] = props[prop]; })
AssignEach(items, props, i) ==
    IF i > Len(props) THEN items
    ELSE AssignEach(SetItem(items, props[i].k, props[i].x), props, i + 1)

\* function merge(obj, props), for obj and props objects
merge(obj, props, h) ==
    LET r == clone(obj, h) IN
    IF r.err THEN r
    ELSE CloneOk(r.x, [r.h EXCEPT ![r.x.v].items = AssignEach(@, h[props.v].items, 1)])

\* the caller builds a value: an array or object literal, or a function
Alloc(c) ==
    /\ phase = "build"
    /\ Len(heap) < MaxCells
    /\ heap' = Append(heap, c)
    /\ UNCHANGED <<phase, callArgs, callRes, callErr, snap, muts>>
    /\ CloneFrame

CallClone(x) ==
    /\ phase = "build"
    /\ LET r == clone(x, heap) IN
       /\ heap' = r.h
       /\ callRes' = r.x
       /\ callErr' = r.err
    /\ phase' = "cloned"
    /\ callArgs' = <<x>>
    /\ snap' = heap
    /\ UNCHANGED muts
    /\ CloneFrame

CallMerge(obj, props) ==
    /\ phase = "build"
    /\ LET r == merge(obj, props, heap) IN
       /\ heap' = r.h
       /\ callRes' = r.x
       /\ callErr' = r.err
    /\ phase' = "merged"
    /\ callArgs' = <<obj, props>>
    /\ snap' = heap
    /\ UNCHANGED muts
    /\ CloneFrame

RECURSIVE Reach(_, _)
\* the addresses reachable from a value
Reach(x, h) ==
    IF x.t # "ref" THEN {}
    ELSE {x.v} \cup UNION {Reach(h[x.v].items[i].x, h) : i \in 1..Len(h[x.v].items)}

Containers(x, h) == {a \in Reach(x, h) : h[a].kind # "function"}

\* the caller writes to a container of the clone: testObj.testObj.test = 'CHANGED'
Mutate(a, k) ==
    /\ phase = "cloned"
    /\ ~callErr
    /\ muts < MaxMuts
    /\ a \in Containers(callRes, heap)
    /\ heap' = [heap EXCEPT ![a].items = SetItem(@, k, Changed)]
    /\ muts' = muts + 1
    /\ UNCHANGED <<phase, callArgs, callRes, callErr, snap>>
    /\ CloneFrame

CloneInit ==
    /\ heap = <<>>
    /\ phase = "build"
    /\ callArgs = <<>>
    /\ callRes = Undefined
    /\ callErr = FALSE
    /\ snap = <<>>
    /\ muts = 0

ObjectRefs(h) == {Ref(a) : a \in {b \in 1..Len(h) : h[b].kind = "object"}}

CloneNext ==
    \/ \E c \in {Cell("array", its) : its \in ArrayItems(heap)} : Alloc(c)
    \/ \E c \in {Cell("object", its) : its \in ObjectItems(heap)} : Alloc(c)
    \/ Alloc(Cell("function", <<>>))
    \/ \E x \in CloneValues(heap) : CallClone(x)
    \/ \E obj \in ObjectRefs(heap), props \in ObjectRefs(heap) : CallMerge(obj, props)
    \/ \E a \in 1..Len(heap), k \in 0..MaxItems : Mutate(a, k)

RECURSIVE DeepEq(_, _, _, _)
\* deep equality of x in heap hx and y in heap hy: functions by reference,
\* arrays by their elements in order, objects by their keys' values
DeepEq(x, hx, y, hy) ==
    IF x.t # "ref" \/ y.t # "ref" THEN x = y
    ELSE LET cx == hx[x.v]
             cy == hy[y.v] IN
         /\ cx.kind = cy.kind
         /\ IF cx.kind = "function" THEN x.v = y.v
            ELSE /\ Len(cx.items) = Len(cy.items)
                 /\ \A i \in 1..Len(cx.items) :
                       /\ HasKey(cy.items, cx.items[i].k)
                       /\ DeepEq(cx.items[i].x, hx, GetItem(cy.items, cx.items[i].k), hy)

RECURSIVE HasNull(_, _)
\* whether null is the value or is stored anywhere inside it
HasNull(x, h) ==
    IF x.t # "ref" THEN x.t = "null"
    ELSE \E i \in 1..Len(h[x.v].items) : HasNull(h[x.v].items[i].x, h)

\* the cells reachable from x are what they were when the call was made
Untouched(x) == \A a \in Reach(x, snap) : heap[a] = snap[a]

CloneArg == callArgs[1]

\* what clone promises of one call: no throw, a deep-equal result that
\* shares no array or object with the argument, a function returned as
\* itself, and an argument that the call and later writes to the clone
\* leave as it was
CloneGood ==
    /\ ~callErr
    /\ muts = 0 => DeepEq(CloneArg, snap, callRes, heap)
    /\ Containers(callRes, heap) \cap Containers(CloneArg, snap) = {}
    /\ (CloneArg.t = "ref" /\ snap[CloneArg.v].kind = "function") => callRes = CloneArg
    /\ Untouched(CloneArg)

\* C4: clone(v) is deep-equal to v, shares no array or object with v at
\* any depth, returns a function as itself, and v is unchanged by any
\* writes to the clone's containers.
CloneContract == phase = "cloned" => CloneGood

\* the same for the values that hold no null anywhere
CloneContractNoNull ==
    (phase = "cloned" /\ ~HasNull(CloneArg, snap)) => CloneGood

\* C5: clone returns a primitive unchanged and without raising an error,
\* as the argument or as an element or property value inside it.
ClonePrimitive ==
    phase = "cloned" =>
        /\ ~callErr
        /\ CloneArg.t # "ref" => callRes = CloneArg
        /\ (CloneArg.t = "ref" /\ snap[CloneArg.v].kind # "function") =>
              \A i \in 1..Len(snap[CloneArg.v].items) :
                 LET it == snap[CloneArg.v].items[i] IN
                 it.x.t # "ref" => (muts = 0 => GetItem(heap[callRes.v].items, it.k) = it.x)

MergeBase  == callArgs[1]
MergeProps == callArgs[2]

\* what merge promises of one call
MergeGood ==
    /\ ~callErr
    /\ callRes.t = "ref"
    /\ callRes.v > Len(snap)
    /\ heap[callRes.v].kind = "object"
    /\ LET res  == heap[callRes.v].items
           base == snap[MergeBase.v].items
           over == snap[MergeProps.v].items IN
       /\ \A i \in 1..Len(over) : GetItem(res, over[i].k) = over[i].x /\ HasKey(res, over[i].k)
       /\ \A i \in 1..Len(base) :
             ~HasKey(over, base[i].k) =>
                /\ HasKey(res, base[i].k)
                /\ DeepEq(base[i].x, snap, GetItem(res, base[i].k), heap)
                /\ Containers(GetItem(res, base[i].k), heap) \cap Containers(base[i].x, snap) = {}
       /\ \A i \in 1..Len(res) : HasKey(over, res[i].k) \/ HasKey(base, res[i].k)
       /\ over = <<>> => DeepEq(callRes, heap, clone(MergeBase, snap).x, clone(MergeBase, snap).h)
    /\ \A a \in 1..Len(snap) : heap[a] = snap[a]

\* C6: merge returns a new object in which every key of the overrides
\* holds the overrides' own value and every other key of the base a deep
\* copy; merge(base, {}) is deep-equal to clone(base); base and overrides
\* are left unchanged.
MergeContract == phase = "merged" => MergeGood

\* the same for the bases that hold no null anywhere
MergeContractNoNull ==
    (phase = "merged" /\ ~HasNull(MergeBase, snap)) => MergeGood

(***************************************************************************)
(* existy and dispatch.  A handler is modelled by the value it returns     *)
(* for the call (the suite's makeDispatchees builds such handlers); the    *)
(* arguments it is invoked with are logged.                                *)
(***************************************************************************)
MaxFns == 3        \* handlers given to dispatch

DispatchRets == {Undefined, Null, Num(0), False, EmptyStr, Str(1)}
DispatchArguments == {<<>>, <<Str(2)>>, <<Str(2), Num(0)>>, <<Null, Str(3)>>}

existyTruthy(test) == Truthy(test)

\* function existy(test) { return test != null; }
existy(test) == test.t \notin {"null", "undefined"}

\* dispatch(fns...): var fns = slice(arguments), size = fns.length
dispatch(fns) ==
    /\ dPc = "idle"
    /\ dFns' = fns
    /\ dPc' = "made"
    /\ UNCHANGED <<dArgs, dI, dRet, dCalls, tPc, tName>>
    /\ CombFrame

\* do_dispatch(target, args...): var args = slice(arguments, 1), ret, fn, i
do_dispatch(arguments) ==
    /\ dPc = "made"
    /\ dArgs' = arguments
    /\ dI' = 0
    /\ dRet' = Undefined
    /\ dCalls' = <<>>
    /\ dPc' = "loop"
    /\ UNCHANGED <<dFns, tPc, tName>>
    /\ CombFrame

\* [target].concat(args): target is undefined when no argument was given
HandlerArgs(arguments) ==
    IF arguments = <<>> THEN <<Undefined>> ELSE <<Head(arguments)>> \o Tail(arguments)

\* one turn of for (i = 0; i < size; ++i) { ... }
DispatchStep ==
    /\ dPc = "loop"
    /\ dI < Len(dFns)
    /\ LET ret == dFns[dI + 1] IN
       /\ dCalls' = Append(dCalls, [fn |-> dI, args |-> HandlerArgs(dArgs)])
       /\ dRet' = ret
       /\ IF existy(ret)
          THEN dPc' = "done" /\ dI' = dI
          ELSE dPc' = "loop" /\ dI' = dI + 1
    /\ UNCHANGED <<dFns, dArgs, tPc, tName>>
    /\ CombFrame

\* the loop ends with no existy result: return ret
DispatchExit ==
    /\ dPc = "loop"
    /\ dI >= Len(dFns)
    /\ dPc' = "done"
    /\ UNCHANGED <<dFns, dArgs, dI, dRet, dCalls, tPc, tName>>
    /\ CombFrame

\* module.exports = { ... }
ModuleExports ==
    {"clone", "merge", "slice", "splice", "reduce", "existy", "dispatch", "noop",
     "identity", "curry", "partial", "compose", "monad", "sortNumeric", "values",
     "memoize", "getIndex", "genScale"}

\* the exports the suite calls
TestedExports ==
    {"clone", "merge", "existy", "dispatch", "memoize", "compose", "genScale",
     "monad", "debounce"}

\* utils.<name>(...) in a test: calling a property the module does not
\* export throws a TypeError and ends the test
CallExport(name) ==
    /\ tPc = "idle"
    /\ tName' = name
    /\ tPc' = IF name \in ModuleExports THEN "called" ELSE "thrown"
    /\ UNCHANGED <<dFns, dPc, dArgs, dI, dRet, dCalls>>
    /\ CombFrame

CombInit ==
    /\ dFns = <<>>
    /\ dPc = "idle"
    /\ dArgs = <<>>
    /\ dI = 0
    /\ dRet = Undefined
    /\ dCalls = <<>>
    /\ tPc = "idle"
    /\ tName = ""

CombNext ==
    \/ \E fns \in SeqsUpTo(DispatchRets, MaxFns) : dispatch(fns)
    \/ \E arguments \in DispatchArguments : do_dispatch(arguments)
    \/ DispatchStep
    \/ DispatchExit
    \/ \E name \in TestedExports : CallExport(name)

\* the handlers whose result is existy
ExistyFns == {i \in 1..Len(dFns) : dFns[i].t # "null" /\ dFns[i].t # "undefined"}
FirstExisty == CHOOSE i \in ExistyFns : \A j \in ExistyFns : i <= j
\* the handlers a finished call must have invoked
Invoked == IF ExistyFns = {} THEN Len(dFns) ELSE FirstExisty

\* C7: a finished call of the dispatcher has invoked the handlers in
\* order, each once with (target, args...), up to and including the first
\* whose result is existy, and returned that result; with no existy result
\* it has invoked all of them and returned the last one's result.
DispatchFirstExisty ==
    dPc = "done" =>
        /\ Len(dCalls) = Invoked
        /\ \A i \in 1..Len(dCalls) :
              /\ dCalls[i].fn = i - 1
              /\ dCalls[i].args = <<IF dArgs = <<>> THEN Undefined ELSE dArgs[1]>>
                                      \o SubSeq(dArgs, 2, Len(dArgs))
        /\ dRet = IF Invoked = 0 THEN Undefined ELSE dFns[Invoked]

\* a call that skipped a null result and stopped at a falsy but existy one
\* with a handler left uninvoked
DispatchFirstExistyWitness ==
    /\ dPc = "done"
    /\ Len(dFns) = 3
    /\ dFns[1] = Null
    /\ dFns[2] \in {Num(0), False, EmptyStr}
    /\ Len(dCalls) = 2
    /\ Len(dArgs) = 2

\* C3: the module exports debounce, so a test that calls utils.debounce
\* gets a wrapper back instead of an error.
DebounceExported == (tPc # "idle" /\ tName = "debounce") => tPc = "called"

(***************************************************************************)
(* generateScale.  A JavaScript number is a binary floating-point number:  *)
(* every operation returns the exact result rounded to the nearest number  *)
(* of MantBits significant bits, ties to even (53 bits in IEEE 754 double; *)
(* fewer here, the exponent unbounded).  A number is a fraction [n, d] in  *)
(* lowest terms.                                                           *)
(***************************************************************************)
MantBits == 3      \* significant bits of a number
MaxNum   == 7      \* the largest range end and argument

RECURSIVE Gcd(_, _)
Gcd(a, b) == IF b = 0 THEN a ELSE Gcd(b, a % b)
Abs(a) == IF a < 0 THEN -a ELSE a
Rat(n, d) == LET g == Gcd(Abs(n), d) IN [n |-> n \div g, d |-> d \div g]
RECURSIVE Pow2(_)
Pow2(k) == IF k = 0 THEN 1 ELSE 2 * Pow2(k - 1)

RECURSIVE FlNorm(_, _, _, _)
\* a/b > 0 scaled by su/sd: shift until 2^(MantBits-1) <= a/b < 2^MantBits,
\* then round a/b to the nearest integer, ties to even
FlNorm(a, b, su, sd) ==
    IF a < Pow2(MantBits - 1) * b THEN FlNorm(2 * a, b, su, 2 * sd)
    ELSE IF a >= Pow2(MantBits) * b THEN FlNorm(a, 2 * b, 2 * su, sd)
    ELSE LET m == a \div b
             r == a % b
             up == 2 * r > b \/ (2 * r = b /\ m % 2 = 1)
         IN  Rat((IF up THEN m + 1 ELSE m) * su, sd)

\* the exact value q rounded to a number
FlRound(q) ==
    IF q.n = 0 THEN q
    ELSE LET p == FlNorm(Abs(q.n), q.d, 1, 1) IN
         [n |-> IF q.n < 0 THEN -p.n ELSE p.n, d |-> p.d]

FlSub(x, y) == FlRound(Rat(x.n * y.d - y.n * x.d, x.d * y.d))     \* x - y
FlAdd(x, y) == FlRound(Rat(x.n * y.d + y.n * x.d, x.d * y.d))     \* x + y
FlMul(x, y) == FlRound(Rat(x.n * y.n, x.d * y.d))                 \* x * y
FlDiv(x, y) ==                                                    \* x / y, y # 0
    FlRound(IF y.n < 0 THEN Rat(-(x.n * y.d), x.d * (-y.n)) ELSE Rat(x.n * y.d, x.d * y.n))
FlLt(x, y)  == x.n * y.d < y.n * x.d                              \* x < y
FlLe(x, y)  == x.n * y.d <= y.n * x.d

\* the whole numbers up to MaxNum that are numbers of MantBits bits
ScaleNums == {q \in {Rat(n, 1) : n \in 0..MaxNum} : FlRound(q) = q}

\* var test = (outputDiff * (x - inputMin) / inputDiff) + outputMin, with
\* inputDiff = inputMax - inputMin and outputDiff = outputMax - outputMin
ScaleTest(p, x) ==
    FlAdd(FlDiv(FlMul(FlSub(p.outputMax, p.outputMin), FlSub(x, p.inputMin)),
                FlSub(p.inputMax, p.inputMin)), p.outputMin)

\* return test < outputMin ? outputMin : test > outputMax ? outputMax : test
ScaleResult(p, x) ==
    LET test == ScaleTest(p, x) IN
    IF FlLt(test, p.outputMin) THEN p.outputMin
    ELSE IF FlLt(p.outputMax, test) THEN p.outputMax
    ELSE test

\* generateScale(inputMin, inputMax, outputMin, outputMax), for the ranges
\* with inputMin < inputMax and outputMin <= outputMax
generateScale(inputMin, inputMax, outputMin, outputMax) ==
    /\ sPc = "idle"
    /\ FlLt(inputMin, inputMax)
    /\ FlLe(outputMin, outputMax)
    /\ sParams' = [inputMin |-> inputMin, inputMax |-> inputMax,
                   outputMin |-> outputMin, outputMax |-> outputMax]
    /\ sPc' = "made"
    /\ UNCHANGED <<sX, sOut>>
    /\ ScaleFrame

\* _scale(x)
Scale(x) ==
    /\ sPc \in {"made", "scaled"}
    /\ sX' = x
    /\ sOut' = ScaleResult(sParams, x)
    /\ sPc' = "scaled"
    /\ UNCHANGED sParams
    /\ ScaleFrame

Zero == Rat(0, 1)

ScaleInit ==
    /\ sPc = "idle"
    /\ sParams = [inputMin |-> Zero, inputMax |-> Zero, outputMin |-> Zero, outputMax |-> Zero]
    /\ sX = Zero
    /\ sOut = Zero

ScaleNext ==
    \/ \E a \in ScaleNums, b \in ScaleNums, c \in ScaleNums, d \in ScaleNums :
          generateScale(a, b, c, d)
    \/ \E x \in ScaleNums : Scale(x)

\* the output is within the output range
ScaleInRange ==
    sPc = "scaled" => FlLe(sParams.outputMin, sOut) /\ FlLe(sOut, sParams.outputMax)

\* an argument at or below inputMin gives outputMin
ScaleLowEnd ==
    (sPc = "scaled" /\ FlLe(sX, sParams.inputMin)) => sOut = sParams.outputMin

\* C8: for inputMin < inputMax and outputMin <= outputMax the output is
\* within [outputMin, outputMax], is outputMin for x <= inputMin, outputMax
\* for x >= inputMax, and strictly between the two for x strictly between
\* inputMin and inputMax when outputMin < outputMax.
ScaleContract ==
    sPc = "scaled" =>
        /\ FlLe(sParams.outputMin, sOut) /\ FlLe(sOut, sParams.outputMax)
        /\ FlLe(sX, sParams.inputMin) => sOut = sParams.outputMin
        /\ FlLe(sParams.inputMax, sX) => sOut = sParams.outputMax
        /\ (/\ FlLt(sParams.inputMin, sX)
            /\ FlLt(sX, sParams.inputMax)
            /\ FlLt(sParams.outputMin, sParams.outputMax)) =>
              FlLt(sParams.outputMin, sOut) /\ FlLt(sOut, sParams.outputMax)

(***************************************************************************)
(* monad.  A value here is a string (the sequence of the pieces it was     *)
(* concatenated from), undefined, or an instance (its index in monads).    *)
(* An instance has two own properties, bind and value, and inherits the    *)
(* rest from the constructor's prototype, which was made with              *)
(* Object.create(null) and holds _is_monad and the lifted methods.         *)
(***************************************************************************)
MaxMonads == 3     \* instances made in one run

MStr(s)   == [t |-> "string", s |-> s, id |-> 0]
MUndef    == [t |-> "undefined", s |-> <<>>, id |-> 0]
MMonad(i) == [t |-> "monad", s |-> <<>>, id |-> i]
MThrown(e) == [t |-> e, s |-> <<>>, id |-> 0]

\* String(x), what x + ' - ...' concatenates onto
Pieces(x) ==
    IF x.t = "string" THEN x.s
    ELSE IF x.t = "undefined" THEN <<"undefined">>
    ELSE <<"[object Object]">>

\* the suite's modifier: function (monad, value) { return value + ' - modified'; }
Modify(x) == MStr(Pieces(x) \o <<"modified">>)

MonadNames  == {"_is_monad", "lifted", "value"}
MonadFns    == {"append", "wrap", "void"}
MonadInputs == {MStr(<<"x">>)}
MonadArgs   == {<<>>, <<MStr(<<"a">>)>>}

Marker     == [kind |-> "marker", fn |-> ""]
Lifted(fn) == [kind |-> "lifted", fn |-> fn]

\* function unit(value): the instance is appended to monads
unit(ms, x) ==
    Append(ms, [value |-> IF modifier = "function" THEN Modify(x) ELSE x])

ModCallsOfUnit == IF modifier = "function" THEN 1 ELSE 0

RECURSIVE Concat(_)
Concat(args) == IF args = <<>> THEN <<>> ELSE Pieces(Head(args)) \o Concat(Tail(args))

\* the functions given to bind and lift, applied to (value, args...):
\*   append  returns value + ' - lifted' + args
\*   wrap    returns an instance of this constructor made from that string
\*   void    returns undefined
\* [out, ms, mods]: the result, the instances and the modifier calls after
Apply(fn, x, args, ms) ==
    LET str == MStr(Pieces(x) \o <<"lifted">> \o Concat(args)) IN
    IF fn = "append" THEN [out |-> str, ms |-> ms, mods |-> 0]
    ELSE IF fn = "wrap"
         THEN [out |-> MMonad(Len(ms) + 1), ms |-> unit(ms, str), mods |-> ModCallsOfUnit]
    ELSE [out |-> MUndef, ms |-> ms, mods |-> 0]

\* result && result._is_monad
IsMonad(x) == x.t = "monad"

\* result && result._is_monad ? result : unit(result)
Rewrap(r) ==
    IF IsMonad(r.out) THEN r
    ELSE [out |-> MMonad(Len(r.ms) + 1), ms |-> unit(r.ms, r.out),
          mods |-> r.mods + ModCallsOfUnit]

\* monad.bind = function (fn, args) { ... }
bind(i, fn, args, ms) == Rewrap(Apply(fn, ms[i].value, args, ms))

LiftedMethodAlwaysWraps(i, fn, args, ms) ==
    LET r == bind(i, fn, args, ms) IN
    [out |-> MMonad(Len(r.ms) + 1), ms |-> unit(r.ms, r.out),
     mods |-> r.mods + ModCallsOfUnit]

\* prototype[name] = function () { var result = this.bind(fn, arguments); ... }
LiftedMethod(i, fn, args, ms) == Rewrap(bind(i, fn, args, ms))

LiftDefinedNever(proto, name) == FALSE

\* if (prototype[name]): true and a function are both truthy
LiftDefined(proto, name) == name \in DOMAIN proto

Op(op, i, name, fn, args, out) ==
    [op |-> op, inst |-> i, name |-> name, fn |-> fn, args |-> args, out |-> out,
     monadsBefore |-> Len(monads), modsBefore |-> modCalls, protoBefore |-> prototype]

\* unit(value), called from outside
MUnit(x) ==
    /\ Len(monads) < MaxMonads
    /\ monads' = unit(monads, x)
    /\ modCalls' = modCalls + ModCallsOfUnit
    /\ last' = Op("unit", 0, "", "", <<x>>, MMonad(Len(monads) + 1))
    /\ UNCHANGED <<modifier, prototype, firstLift>>
    /\ MonadFrame

\* instance.bind(fn, args)
MBind(i, fn, args) ==
    /\ Len(monads) < MaxMonads
    /\ i \in 1..Len(monads)
    /\ LET r == bind(i, fn, args, monads) IN
       /\ monads' = r.ms
       /\ modCalls' = modCalls + r.mods
       /\ last' = Op("bind", i, "", fn, args, r.out)
    /\ UNCHANGED <<modifier, prototype, firstLift>>
    /\ MonadFrame

\* instance[name](args...): an own property (bind, value) hides the
\* prototype's.  The own value() returns the stored value; the own bind
\* (its fn then a string or undefined), the marker and a missing property
\* throw a TypeError when called with these arguments.
MCall(i, name, args) ==
    /\ Len(monads) < MaxMonads
    /\ i \in 1..Len(monads)
    /\ IF name = "value"
       THEN /\ last' = Op("call", i, name, "", args, monads[i].value)
            /\ UNCHANGED <<monads, modCalls>>
       ELSE IF name # "bind" /\ name \in DOMAIN prototype /\ prototype[name].kind = "lifted"
       THEN LET r == LiftedMethod(i, prototype[name].fn, args, monads) IN
            /\ monads' = r.ms
            /\ modCalls' = modCalls + r.mods
            /\ last' = Op("call", i, name, prototype[name].fn, args, r.out)
       ELSE /\ last' = Op("call", i, name, "", args, MThrown("TypeError"))
            /\ UNCHANGED <<monads, modCalls>>
    /\ UNCHANGED <<modifier, prototype, firstLift>>
    /\ MonadFrame

\* unit.lift = function (name, fn) { ... }
MLift(name, fn) ==
    /\ IF LiftDefined(prototype, name)
       THEN /\ last' = Op("lift", 0, name, fn, <<>>, MThrown("Error"))
            /\ UNCHANGED <<prototype, firstLift>>
       ELSE /\ prototype' = [n \in DOMAIN prototype \cup {name} |->
                                IF n = name THEN Lifted(fn) ELSE prototype[n]]
            /\ firstLift' = IF name \in DOMAIN firstLift THEN firstLift
                            ELSE [n \in DOMAIN firstLift \cup {name} |->
                                     IF n = name THEN fn ELSE firstLift[n]]
            /\ last' = Op("lift", 0, name, fn, <<>>, MStr(<<"unit">>))
    /\ UNCHANGED <<modifier, monads, modCalls>>
    /\ MonadFrame

\* monad(modifier): prototype = Object.create(null); prototype._is_monad = true
MonadInit ==
    /\ modifier \in {"function", "undefined"}
    /\ prototype = [n \in {"_is_monad"} |-> Marker]
    /\ monads = <<>>
    /\ modCalls = 0
    /\ firstLift = <<>>
    /\ last = [op |-> "none", inst |-> 0, name |-> "", fn |-> "", args |-> <<>>,
               out |-> MUndef, monadsBefore |-> 0, modsBefore |-> 0,
               protoBefore |-> [n \in {"_is_monad"} |-> Marker]]

MonadIdle ==
    /\ modifier = "undefined"
    /\ prototype = [n \in {"_is_monad"} |-> Marker]
    /\ monads = <<>>
    /\ modCalls = 0
    /\ firstLift = <<>>
    /\ last = [op |-> "none", inst |-> 0, name |-> "", fn |-> "", args |-> <<>>,
               out |-> MUndef, monadsBefore |-> 0, modsBefore |-> 0,
               protoBefore |-> [n \in {"_is_monad"} |-> Marker]]

MonadNext ==
    \/ \E x \in MonadInputs : MUnit(x)
    \/ \E i \in 1..MaxMonads, fn \in MonadFns, args \in MonadArgs : MBind(i, fn, args)
    \/ \E i \in 1..MaxMonads, name \in MonadNames \cup {"bind", "other"}, args \in MonadArgs :
          MCall(i, name, args)
    \/ \E name \in MonadNames, fn \in MonadFns : MLift(name, fn)

\* the instance an operation returned
OutValue == monads[last.out.id].value

\* what the function of the last bind or lifted call returned before any
\* wrapping: a string or undefined (wrap makes an instance of that string)
RawResult(fn) ==
    IF fn = "void" THEN MUndef
    ELSE MStr(Pieces(monads[last.inst].value) \o <<"lifted">> \o Concat(last.args))

\* the last operation made exactly one instance, by one call of the
\* modifier, and returned it holding modifier(raw result of fn)
WrappedOnce(fn) ==
    /\ last.out = MMonad(last.monadsBefore + 1)
    /\ Len(monads) = last.monadsBefore + 1
    /\ modCalls = last.modsBefore + 1
    /\ OutValue = MStr(Pieces(RawResult(fn)) \o <<"modified">>)

LastIsLiftedCall ==
    /\ last.op = "call"
    /\ last.name \in DOMAIN last.protoBefore
    /\ last.protoBefore[last.name].kind = "lifted"

\* C9, as stated: with a callable modifier every wrap applies the modifier
\* once; bind wraps the function's result once unless it is an instance;
\* and after lift(name, fn), for every name, instance[name](args) behaves
\* as instance.bind(fn, args).
MonadLiftedBehavesAsBind ==
    modifier = "function" =>
        /\ modCalls = Len(monads)
        /\ last.op = "unit" =>
              /\ last.out = MMonad(Len(monads))
              /\ OutValue = MStr(Pieces(last.args[1]) \o <<"modified">>)
        /\ last.op = "bind" => WrappedOnce(last.fn)
        /\ LastIsLiftedCall => WrappedOnce(last.protoBefore[last.name].fn)

\* C9, amended: the same, for the lifted names other than bind and value,
\* which every instance has as own properties that hide the prototype's.
MonadWrapsOnce ==
    modifier = "function" =>
        /\ modCalls = Len(monads)
        /\ last.op = "unit" =>
              /\ last.out = MMonad(Len(monads))
              /\ OutValue = MStr(Pieces(last.args[1]) \o <<"modified">>)
        /\ last.op = "bind" => WrappedOnce(last.fn)
        /\ (LastIsLiftedCall /\ last.name \notin {"bind", "value"}) =>
              WrappedOnce(last.protoBefore[last.name].fn)

\* the suite's case: unit('x').lifted().value() is
\* 'x - modified - lifted - modified'
MonadWrapsOnceWitness ==
    /\ modifier = "function"
    /\ LastIsLiftedCall
    /\ last.name = "lifted"
    /\ last.out.t = "monad"
    /\ OutValue = MStr(<<"x", "modified", "lifted", "modified">>)

\* C10: a lift of a name already on the prototype (the marker or a lifted
\* name) throws and leaves the prototype as it was, so each lifted name
\* stays bound to the function of its first registration; a lift of a name
\* not yet defined binds it and returns unit.
MonadLiftOnce ==
    /\ prototype["_is_monad"] = Marker
    /\ \A n \in DOMAIN firstLift : prototype[n] = [kind |-> "lifted", fn |-> firstLift[n]]
    /\ last.op = "lift" =>
          IF last.name \in DOMAIN last.protoBefore
          THEN last.out.t = "Error" /\ prototype = last.protoBefore
          ELSE /\ last.out = MStr(<<"unit">>)
               /\ DOMAIN prototype = DOMAIN last.protoBefore \cup {last.name}
               /\ prototype[last.name] = [kind |-> "lifted", fn |-> last.fn]
               /\ \A n \in DOMAIN last.protoBefore : prototype[n] = last.protoBefore[n]

\* a second lift of a lifted name, with another function, that threw
MonadLiftOnceWitness ==
    /\ last.op = "lift"
    /\ last.out.t = "Error"
    /\ last.name = "lifted"
    /\ last.fn # prototype["lifted"].fn

(***************************************************************************)
(* The specifications                                                      *)
(***************************************************************************)
InitMemo == MemoInit /\ CloneInit /\ CombInit /\ ScaleInit /\ MonadIdle
SpecMemo == InitMemo /\ [][MemoNext]_vars

InitClone == MemoIdle /\ CloneInit /\ CombInit /\ ScaleInit /\ MonadIdle
SpecClone == InitClone /\ [][CloneNext]_vars

InitCombinators == MemoIdle /\ CloneInit /\ CombInit /\ ScaleInit /\ MonadIdle
SpecCombinators == InitCombinators /\ [][CombNext]_vars

InitScale == MemoIdle /\ CloneInit /\ CombInit /\ ScaleInit /\ MonadIdle
SpecScale == InitScale /\ [][ScaleNext]_vars

InitMonad == MemoIdle /\ CloneInit /\ CombInit /\ ScaleInit /\ MonadInit
SpecMonad == InitMonad /\ [][MonadNext]_vars

=============================================================================
